---- MODULE Spec2Model ----
(***************************************************************************)
(* Model of the Andor iXon Ultra 897 camera controller                     *)
(* (src/hardware/camera/andor/iXon897_ultra.py, class IxonUltra) and of    *)
(* the crosshair of the scan plot (src/qtwidgets/scan_plotwidget.py,       *)
(* class ScanCrosshair).                                                   *)
(*                                                                         *)
(* The controller object is the record `cam` (one field per attribute      *)
(* self._x), the vendor library is the Device Transport: every dll call    *)
(* is answered with a status code drawn nondeterministically, and is       *)
(* recorded, with its arguments and its answer, in `calls`, the log of     *)
(* the transport calls made by the most recent operation.                  *)
(***************************************************************************)
EXTENDS Integers, Sequences, FiniteSets, TLC

VARIABLES
    cam,      \* the attributes of the IxonUltra instance
    dev,      \* what the device reports: capability tables, detector size
    phase,    \* "constructed", "active" (after on_activate), "deactivated"
    lastOp,   \* name of the most recent operation
    lastArg,  \* its arguments, a tuple of Python values
    result,   \* what it returned (or raised), as a Python value
    calls,    \* the transport calls it made, in order
    cimage,   \* the buffer a retrieval call of it was handed, as the call left it
    nops,     \* number of operations called since on_activate
    thr,      \* the threads calling into the controller: where each one is
    xh,       \* the attributes of a ScanCrosshair instance
    emitted   \* the Qt signals it has emitted, in order

vars == <<cam, dev, phase, lastOp, lastArg, result, calls, cimage, nops, thr, xh, emitted>>

(***************************************************************************)
(* Python values.  A value carries its type, so that -1, False, None, a    *)
(* status string, a ctypes object and a raised exception stay distinct.    *)
(***************************************************************************)
PyNone == [kind |-> "None", val |-> 0]
PyInt(n) == [kind |-> "int", val |-> n]
PyBool(b) == [kind |-> "bool", val |-> b]
PyStr(str) == [kind |-> "str", str |-> str]
PyCInt(n) == [kind |-> "c_int", val |-> n]
PyArray(shape, data) == [kind |-> "ndarray", val |-> [shape |-> shape, data |-> data]]
PyRaise(exc) == [kind |-> "raise", exc |-> exc]
PyFloat(x) == [kind |-> "float", val |-> x]

IsInt(r, n) == r.kind = "int" /\ r.val = n
IsBool(r, b) == r.kind = "bool" /\ r.val = b
IsStr(r, str) == r.kind = "str" /\ r.str = str
Raised(r) == r.kind = "raise"

\* ctypes.c_int(x).value: x reduced to a signed 32 bit integer
CInt(x) ==
    LET max == 2147483647
    IN  IF -max - 1 <= x /\ x <= max
        THEN x
        ELSE ((x + max + 1) % (2 * (max + 1))) - max - 1

\* ctypes.c_float(x).value: x rounded to single precision.  Times are counted
\* in milliseconds here; of those, the multiples of 4 stand for the values a
\* single-precision float holds exactly (0.17 s is not one of them).
CFloat(x) == ((x + 2) \div 4) * 4

\* int(a / b) for b > 0: true division, then truncation towards zero
TruncDiv(a, b) == IF a >= 0 THEN a \div b ELSE -((-a) \div b)

(***************************************************************************)
(* Enums and the status vocabulary                                         *)
(***************************************************************************)
ReadMode ==
    [FVB |-> 0, MULTI_TRACK |-> 1, RANDOM_TRACK |-> 2, SINGLE_TRACK |-> 3, IMAGE |-> 4]

AcquisitionMode ==
    [SINGLE_SCAN |-> 1, ACCUMULATE |-> 2, KINETICS |-> 3, FAST_KINETICS |-> 4,
     RUN_TILL_ABORT |-> 5]

TriggerMode ==
    [INTERNAL |-> 0, EXTERNAL |-> 1, EXTERNAL_START |-> 6, EXTERNAL_EXPOSURE |-> 7,
     SOFTWARE_TRIGGER |-> 10, EXTERNAL_CHARGE_SHIFTING |-> 12]

\* hasattr(Enum, name) for a mode name
hasattr(enum, name) == name \in DOMAIN enum

ERROR_DICT ==
    20001 :> "DRV_ERROR_CODES" @@ 20002 :> "DRV_SUCCESS" @@
    20003 :> "DRV_VXNOTINSTALLED" @@ 20006 :> "DRV_ERROR_FILELOAD" @@
    20007 :> "DRV_ERROR_VXD_INIT" @@ 20010 :> "DRV_ERROR_PAGELOCK" @@
    20011 :> "DRV_ERROR_PAGE_UNLOCK" @@ 20013 :> "DRV_ERROR_ACK" @@
    20024 :> "DRV_NO_NEW_DATA" @@ 20026 :> "DRV_SPOOLERROR" @@
    20034 :> "DRV_TEMP_OFF" @@ 20035 :> "DRV_TEMP_NOT_STABILIZED" @@
    20036 :> "DRV_TEMP_STABILIZED" @@ 20037 :> "DRV_TEMP_NOT_REACHED" @@
    20038 :> "DRV_TEMP_OUT_RANGE" @@ 20039 :> "DRV_TEMP_NOT_SUPPORTED" @@
    20040 :> "DRV_TEMP_DRIFT" @@ 20050 :> "DRV_COF_NOTLOADED" @@
    20053 :> "DRV_FLEXERROR" @@ 20066 :> "DRV_P1INVALID" @@
    20067 :> "DRV_P2INVALID" @@ 20068 :> "DRV_P3INVALID" @@
    20069 :> "DRV_P4INVALID" @@ 20070 :> "DRV_INIERROR" @@
    20071 :> "DRV_COERROR" @@ 20072 :> "DRV_ACQUIRING" @@
    20073 :> "DRV_IDLE" @@ 20074 :> "DRV_TEMPCYCLE" @@
    20075 :> "DRV_NOT_INITIALIZED" @@ 20076 :> "DRV_P5INVALID" @@
    20077 :> "DRV_P6INVALID" @@ 20078 :> "DRV_INVALID_MODE" @@
    20079 :> "DRV_INVALID_FILTER" @@ 20080 :> "DRV_l2CERRORS" @@
    20081 :> "DRV_DRV_l2CDEVNOTFOUND" @@ 20082 :> "DRV_l2CTIMEOUT" @@
    20083 :> "P7_INVALID" @@ 20089 :> "DRV_USBERROR" @@
    20091 :> "DRV_NOT_SUPPORTED" @@ 20095 :> "DRV_INVALID_TRIGGER_MODE" @@
    20099 :> "DRV_BINNING_ERROR" @@ 20990 :> "DRV_NOCAMERA" @@
    20991 :> "DRV_NOT_SUPPORTED" @@ 20992 :> "DRV_NOT_AVAILABLE"

\* The status codes the transport answers with in this model: success, and
\* one failure (DRV_ERROR_ACK, "unable to communicate with the card", which
\* every SDK function may return).
TransportCodes == {20002, 20013}

Ok(code) == ERROR_DICT[code] = "DRV_SUCCESS"

\* One logged transport call: the dll function, its arguments, its answer
Call(fn, args, code) == [fn |-> fn, args |-> args, code |-> code]

\* The outcome of running a method: attributes after it, return value, calls
AllCallsOk(cl) == \A i \in DOMAIN cl : Ok(cl[i].code)

Outcome(s, ret, cl) == [s |-> s, ret |-> ret, calls |-> cl]

\* Statement sequencing: F applied to the outcome o of what ran before it,
\* with o evaluated once
Then(o, F(_)) == CHOOSE r \in {F(x) : x \in {o}} : TRUE

\* r ran after o: its attributes and return value, the calls of both
After(o, r) == Outcome(r.s, r.ret, o.calls \o r.calls)

(***************************************************************************)
(* Program constants: the ConfigOption defaults and the class attributes   *)
(***************************************************************************)
default_exposure == 170            \* 0.17 s, in milliseconds
default_temperature == 0
default_preamp_gain_index == 2
default_horizontal_readout_index == 0
default_vertical_readout_index == 4
default_output_amplifier == 1
min_temperature == -100
baseline == 200
scans == 1

\* An attribute the instance does not have (yet)
Absent == [kind |-> "absent", val |-> 0]

\* The attributes of a freshly constructed IxonUltra: the class attributes,
\* which alias the ConfigOptions.  config holds the options drawn from the
\* configuration; the others keep their documented default.
\* _hbin .. _vend, _cur_image, _accumulate and _kinetic exist only once a
\* method has assigned them.
ClassAttributes(config) ==
    [exposure |-> default_exposure,
     temperature |-> PyInt(default_temperature),
     cooler_on |-> TRUE,
     read_mode |-> config.default_read_mode,
     acquisition_mode |-> config.default_acquisition_mode,
     trigger_mode |-> config.default_trigger_mode,
     preamp_gain_index |-> default_preamp_gain_index,
     horizontal_readout_index |-> default_horizontal_readout_index,
     vertical_readout_index |-> default_vertical_readout_index,
     output_amplifier |-> default_output_amplifier,
     gain |-> 0,
     width |-> 0,
     height |-> 0,
     live |-> FALSE,
     shutter |-> "closed",
     acquiring |-> FALSE,
     support_live |-> Absent,
     hbin |-> Absent, vbin |-> Absent, hstart |-> Absent, hend |-> Absent,
     vstart |-> Absent, vend |-> Absent,
     cur_image |-> Absent, accumulate |-> Absent, kinetic |-> Absent]

(***************************************************************************)
(* Setters.  Each takes the attributes s, the arguments of the method and  *)
(* the status code(s) the transport answers with, and gives the Outcome.   *)
(***************************************************************************)
\* set_exposure answering success without assigning the attribute
set_exposure_keeps_attribute(s, exposure, code) ==
    LET cl == <<Call("SetExposureTime", <<CFloat(exposure)>>, code)>>
    IN  IF Ok(code)
        THEN Outcome(s, PyInt(0), cl)
        ELSE Outcome(s, PyInt(-1), cl)

set_exposure(s, exposure, code) ==
    LET cl == <<Call("SetExposureTime", <<CFloat(exposure)>>, code)>>
    IN  IF Ok(code)
        THEN Outcome([s EXCEPT !.exposure = exposure], PyInt(0), cl)
        ELSE Outcome(s, PyInt(-1), cl)

\* _set_image taking hend and vend as exclusive bounds
_set_image_exclusive_end(s, hbin, vbin, hstart, hend, vstart, vend, code) ==
    LET c == [hbin |-> CInt(hbin), vbin |-> CInt(vbin), hstart |-> CInt(hstart),
              hend |-> CInt(hend), vstart |-> CInt(vstart), vend |-> CInt(vend)]
        cl == <<Call("SetImage",
                     <<c.hbin, c.vbin, c.hstart, c.hend, c.vstart, c.vend>>, code)>>
        msg == ERROR_DICT[code]
    IN  IF msg = "DRV_SUCCESS"
        THEN Outcome([s EXCEPT !.hbin = PyInt(c.hbin), !.vbin = PyInt(c.vbin),
                               !.hstart = PyInt(c.hstart), !.hend = PyInt(c.hend),
                               !.vstart = PyInt(c.vstart), !.vend = PyInt(c.vend),
                               !.width = TruncDiv(c.hend - c.hstart, c.hbin),
                               !.height = TruncDiv(c.vend - c.vstart, c.vbin)],
                     PyStr(msg), cl)
        ELSE Outcome(s, PyStr(msg), cl)

_set_image(s, hbin, vbin, hstart, hend, vstart, vend, code) ==
    LET c == [hbin |-> CInt(hbin), vbin |-> CInt(vbin), hstart |-> CInt(hstart),
              hend |-> CInt(hend), vstart |-> CInt(vstart), vend |-> CInt(vend)]
        cl == <<Call("SetImage",
                     <<c.hbin, c.vbin, c.hstart, c.hend, c.vstart, c.vend>>, code)>>
        msg == ERROR_DICT[code]
    IN  IF msg = "DRV_SUCCESS"
        THEN Outcome([s EXCEPT !.hbin = PyInt(c.hbin), !.vbin = PyInt(c.vbin),
                               !.hstart = PyInt(c.hstart), !.hend = PyInt(c.hend),
                               !.vstart = PyInt(c.vstart), !.vend = PyInt(c.vend),
                               !.width = TruncDiv(c.hend - c.hstart + 1, c.hbin),
                               !.height = TruncDiv(c.vend - c.vstart + 1, c.vbin)],
                     PyStr(msg), cl)
        ELSE Outcome(s, PyStr(msg), cl)

\* code: the answer to SetReadMode; imgcode: the answer to SetImage
_set_read_mode(s, mode, code, imgcode) ==
    IF hasattr(ReadMode, mode)
    THEN LET cl == <<Call("SetReadMode", <<CInt(ReadMode[mode])>>, code)>>
             img == IF mode = "IMAGE"
                    THEN _set_image(s, 1, 1, 1, s.width, 1, s.height, imgcode)
                    ELSE Outcome(s, PyNone, <<>>)
         IN  IF ERROR_DICT[code] # "DRV_SUCCESS"
             THEN Outcome(img.s, PyInt(-1), cl \o img.calls)
             ELSE Outcome([img.s EXCEPT !.read_mode = mode], PyInt(0), cl \o img.calls)
    ELSE \* error_code was never assigned: ERROR_DICT[error_code] cannot be evaluated
         Outcome(s, PyRaise("UnboundLocalError"), <<>>)

_set_trigger_mode(s, mode, code) ==
    IF hasattr(TriggerMode, mode)
    THEN LET cl == <<Call("SetTriggerMode", <<CInt(TriggerMode[mode])>>, code)>>
         IN  IF ERROR_DICT[code] # "DRV_SUCCESS"
             THEN Outcome(s, PyInt(-1), cl)
             ELSE Outcome([s EXCEPT !.trigger_mode = mode], PyInt(0), cl)
    ELSE \* check_val = -1 is set, then ERROR_DICT[error_code] reads an unassigned local
         Outcome(s, PyRaise("UnboundLocalError"), <<>>)

_set_acquisition_mode(s, mode, code) ==
    IF hasattr(AcquisitionMode, mode)
    THEN LET cl == <<Call("SetAcquisitionMode", <<CInt(AcquisitionMode[mode])>>, code)>>
         IN  IF ERROR_DICT[code] # "DRV_SUCCESS"
             THEN Outcome(s, PyInt(-1), cl)
             ELSE Outcome([s EXCEPT !.acquisition_mode = mode], PyInt(0), cl)
    ELSE Outcome(s, PyRaise("UnboundLocalError"), <<>>)

\* temp is a Python value: the caller's int, or the c_int a previous call stored
_set_temperature(s, temp, code) ==
    IF temp.kind # "int"
    THEN \* c_int > int is not defined
         Outcome(s, PyRaise("TypeError"), <<>>)
    ELSE IF temp.val > min_temperature
    THEN LET cl == <<Call("SetTemperature", <<CInt(temp.val)>>, code)>>
         IN  IF ERROR_DICT[code] = "DRV_SUCCESS"
             THEN \* temp has been rebound to c_int(temp): that object is stored
                  Outcome([s EXCEPT !.temperature = PyCInt(CInt(temp.val))],
                          PyStr(ERROR_DICT[code]), cl)
             ELSE Outcome(s, PyStr(ERROR_DICT[code]), cl)
    ELSE \* the error is logged, then ERROR_DICT[error_code] reads an unassigned local
         Outcome(s, PyRaise("UnboundLocalError"), <<>>)

_set_cooler(s, state, code) ==
    Outcome(s, PyStr(ERROR_DICT[code]),
            <<Call(IF state THEN "CoolerON" ELSE "CoolerOFF", <<>>, code)>>)

_set_output_amplifier(s, typ, code) ==
    Outcome(s, PyStr(ERROR_DICT[code]), <<Call("SetOutputAmplifier", <<typ>>, code)>>)

_set_hs_speed(s, typ, index, code) ==
    LET cl == <<Call("SetHSSpeed", <<CInt(typ), CInt(index)>>, code)>>
    IN  IF ERROR_DICT[code] # "DRV_SUCCESS"
        THEN Outcome(s, PyStr(ERROR_DICT[code]), cl)
        ELSE Outcome([s EXCEPT !.horizontal_readout_index = index],
                     PyStr(ERROR_DICT[code]), cl)

_set_vs_speed(s, index, code) ==
    LET cl == <<Call("SetVSSpeed", <<CInt(index)>>, code)>>
    IN  IF ERROR_DICT[code] # "DRV_SUCCESS"
        THEN Outcome(s, PyStr(ERROR_DICT[code]), cl)
        ELSE Outcome([s EXCEPT !.vertical_readout_index = index],
                     PyStr(ERROR_DICT[code]), cl)

\* closingtime and openingtime in milliseconds
_set_shutter(s, typ, mode, closingtime, openingtime, code) ==
    Outcome(s, PyStr(ERROR_DICT[code]),
            <<Call("SetShutter",
                   <<CInt(typ), CInt(mode), CFloat(closingtime), CFloat(openingtime)>>,
                   code)>>)

_open_shutter(s, shut_time, code) == _set_shutter(s, 0, 1, shut_time, shut_time, code)

_close_shutter(s, shut_time, code) == _set_shutter(s, 0, 2, shut_time, shut_time, code)

(***************************************************************************)
(* Gain.  table is the device's preamp-gain table (dev.gains); qcode is    *)
(* the answer to GetNumberPreAmpGains, whose status the code ignores: on   *)
(* failure the zero-initialised c_int is read, so no gain is listed.  The  *)
(* per-index queries GetPreAmpGain are answered with success.              *)
(***************************************************************************)
_get_number_preamp_gains(table, qcode) == IF Ok(qcode) THEN Len(table) ELSE 0

_get_preamp_gain(table, index) == table[index + 1]

_set_preamp_gain(s, index, table, code) ==
    LET cl == <<Call("SetPreAmpGain", <<CInt(index)>>, code)>>
    IN  IF ERROR_DICT[code] = "DRV_SUCCESS"
        THEN Outcome([s EXCEPT !.preamp_gain_index = index,
                               !.gain = _get_preamp_gain(table, index)],
                     PyStr(ERROR_DICT[code]),
                     cl \o <<Call("GetPreAmpGain", <<CInt(index)>>, 20002)>>)
        ELSE Outcome(s, PyStr(ERROR_DICT[code]), cl)

\* set_gain with the index stored where the gain value belongs
set_gain_stores_index(s, gain, table, qcode, code) ==
    LET n_pre_amps == _get_number_preamp_gains(table, qcode)
        gain_values == [i \in 1..n_pre_amps |-> _get_preamp_gain(table, i - 1)]
        queries == <<Call("GetNumberPreAmpGains", <<>>, qcode)>> \o
                   [i \in 1..n_pre_amps |-> Call("GetPreAmpGain", <<CInt(i - 1)>>, 20002)]
    IN  IF \A i \in 1..n_pre_amps : gain_values[i] # gain
        THEN Outcome(s, PyInt(-1), queries)
        ELSE LET first == CHOOSE i \in 1..n_pre_amps :
                              /\ gain_values[i] = gain
                              /\ \A j \in 1..(i - 1) : gain_values[j] # gain
                 gain_index == first - 1
                 set == _set_preamp_gain(s, gain_index, table, code)
                 s2 == IF IsStr(set.ret, "DRV_SUCCESS")
                       THEN [set.s EXCEPT !.preamp_gain_index = gain_index,
                                          !.gain = gain_index]
                       ELSE set.s
             IN  Outcome(s2, PyInt(s2.gain), queries \o set.calls)

set_gain(s, gain, table, qcode, code) ==
    LET n_pre_amps == _get_number_preamp_gains(table, qcode)
        gain_values == [i \in 1..n_pre_amps |-> _get_preamp_gain(table, i - 1)]
        queries == <<Call("GetNumberPreAmpGains", <<>>, qcode)>> \o
                   [i \in 1..n_pre_amps |-> Call("GetPreAmpGain", <<CInt(i - 1)>>, 20002)]
    IN  IF \A i \in 1..n_pre_amps : gain_values[i] # gain
        THEN Outcome(s, PyInt(-1), queries)
        ELSE LET first == CHOOSE i \in 1..n_pre_amps :
                              /\ gain_values[i] = gain
                              /\ \A j \in 1..(i - 1) : gain_values[j] # gain
                 gain_index == first - 1
                 set == _set_preamp_gain(s, gain_index, table, code)
                 s2 == IF IsStr(set.ret, "DRV_SUCCESS")
                       THEN [set.s EXCEPT !.preamp_gain_index = gain_index, !.gain = gain]
                       ELSE set.s
             IN  Outcome(s2, PyInt(s2.gain), queries \o set.calls)

get_gain(s) == Outcome(s, PyInt(s.gain), <<>>)

get_size(s) == Outcome(s, [kind |-> "tuple", val |-> <<s.width, s.height>>], <<>>)

(***************************************************************************)
(* Queries.  A query hands the transport zero-initialised ctypes objects   *)
(* by reference; the Call records, as its arguments, what they hold when   *)
(* the call returns.                                                       *)
(***************************************************************************)
\* code: the answer to GetAcquisitionTimings; timings: the exposure,
\* accumulate and kinetic cycle times the device writes when it succeeds.
\* A failing call writes nothing: the c_float objects stay 0.0.
\* The three attributes are assigned before the answer is looked at.
_get_acquisition_timings(s, code, timings) ==
    LET out == IF Ok(code) THEN timings ELSE <<0, 0, 0>>
        cl == <<Call("GetAcquisitionTimings", out, code)>>
        t == [s EXCEPT !.exposure = out[1], !.accumulate = PyFloat(out[2]),
                       !.kinetic = PyFloat(out[3])]
    IN  IF ~Ok(code)
        THEN Outcome(t, [kind |-> "tuple", val |-> <<-1, -1, -1>>], cl)
        ELSE Outcome(t, [kind |-> "tuple", val |-> out], cl)

get_exposure(s, code, timings) ==
    LET q == _get_acquisition_timings(s, code, timings)
    IN  Outcome(q.s, PyFloat(q.s.exposure), q.calls)

\* _get_status(self) declares no parameter; nargs is the number of arguments
\* it is called with.  code: the answer to GetStatus; status: what the
\* device writes.
_get_status(s, nargs, code, status) ==
    IF nargs # 0
    THEN Outcome(s, PyRaise("TypeError"), <<>>)
    ELSE LET out == IF Ok(code) THEN status ELSE 0
             cl == <<Call("GetStatus", <<out>>, code)>>
         IN  IF ~Ok(code)
             THEN Outcome(s, PyInt(-1), cl)
             ELSE Outcome(s, PyInt(out), cl)

\* get_ready_state passes its own c_int() to _get_status, drops what that
\* returns and looks up the c_int it created, which nothing has written
get_ready_state(s, code, status) ==
    LET q == _get_status(s, 1, code, status)
        local == 0
    IN  IF Raised(q.ret)
        THEN q
        ELSE IF local \notin DOMAIN ERROR_DICT
        THEN Outcome(q.s, PyRaise("KeyError"), q.calls)
        ELSE Outcome(q.s, PyBool(ERROR_DICT[local] = "DRV_IDLE"), q.calls)

(***************************************************************************)
(* Acquisition                                                             *)
(***************************************************************************)
support_live_acquisition(s) == Outcome(s, PyBool(FALSE), <<>>)

\* start_live_acquisition on a camera taken to support live acquisition
start_live_acquisition_supported(s) ==
    Outcome([s EXCEPT !.live = TRUE, !.acquiring = FALSE], PyBool(FALSE), <<>>)

\* self._support_live is read; the class does not define it
start_live_acquisition(s) ==
    IF s.support_live.kind = "absent"
    THEN Outcome(s, PyRaise("AttributeError"), <<>>)
    ELSE IF s.support_live.val
    THEN Outcome([s EXCEPT !.live = TRUE, !.acquiring = FALSE], PyBool(FALSE), <<>>)
    ELSE Outcome(s, PyBool(FALSE), <<>>)

_abort_acquisition(s, code) ==
    Outcome(s, PyStr(ERROR_DICT[code]), <<Call("AbortAcquisition", <<>>, code)>>)

_shut_down(s, code) ==
    Outcome(s, PyStr(ERROR_DICT[code]), <<Call("ShutDown", <<>>, code)>>)

\* code: the answer to StartAcquisition; wcode: to WaitForAcquisition (ignored)
_start_acquisition(s, code, wcode) ==
    Outcome(s, PyStr(ERROR_DICT[code]),
            <<Call("StartAcquisition", <<>>, code)>> \o
            (IF s.trigger_mode = "INTERNAL"
             THEN <<Call("WaitForAcquisition", <<>>, wcode)>>
             ELSE <<>>))

\* start_single_acquisition without the test of the live flag
start_single_acquisition_ignores_live(s, a) ==
    LET read(o) == IF o.s.read_mode # "IMAGE"
                   THEN After(o, _set_read_mode(o.s, "IMAGE", a.SetReadMode, a.SetImage))
                   ELSE o
        acq(o) == IF o.s.acquisition_mode # "SINGLE_SCAN"
                  THEN After(o, _set_acquisition_mode(o.s, "SINGLE_SCAN",
                                                      a.SetAcquisitionMode))
                  ELSE o
        trig(o) == IF o.s.trigger_mode # "INTERNAL"
                   THEN After(o, _set_trigger_mode(o.s, "INTERNAL", a.SetTriggerMode))
                   ELSE o
        shutter(o) == IF o.s.shutter = "closed"
                      THEN LET sh == After(o, _set_shutter(o.s, 0, 1, 100, 100, a.SetShutter))
                           IN  IF IsStr(sh.ret, "DRV_SUCCESS")
                               THEN [sh EXCEPT !.s.shutter = "open"]
                               ELSE sh
                      ELSE o
        start(o) == IF FALSE
                    THEN Outcome(o.s, PyInt(-1), o.calls)
                    ELSE LET st == After(o, _start_acquisition(
                                                [o.s EXCEPT !.acquiring = TRUE],
                                                a.StartAcquisition, a.WaitForAcquisition))
                         IN  IF ~IsStr(st.ret, "DRV_SUCCESS")
                             THEN Outcome(st.s, PyBool(FALSE), st.calls)
                             ELSE Outcome([st.s EXCEPT !.acquiring = FALSE], PyBool(TRUE),
                                          st.calls)
    IN  Then(Then(Then(Then(Then(Outcome(s, PyNone, <<>>), read), acq), trig), shutter),
             start)

\* start_single_acquisition giving up when the shutter does not open
start_single_acquisition_needs_shutter(s, a) ==
    LET read(o) == IF o.s.read_mode # "IMAGE"
                   THEN After(o, _set_read_mode(o.s, "IMAGE", a.SetReadMode, a.SetImage))
                   ELSE o
        acq(o) == IF o.s.acquisition_mode # "SINGLE_SCAN"
                  THEN After(o, _set_acquisition_mode(o.s, "SINGLE_SCAN",
                                                      a.SetAcquisitionMode))
                  ELSE o
        trig(o) == IF o.s.trigger_mode # "INTERNAL"
                   THEN After(o, _set_trigger_mode(o.s, "INTERNAL", a.SetTriggerMode))
                   ELSE o
        shutter(o) == IF o.s.shutter = "closed"
                      THEN LET sh == After(o, _set_shutter(o.s, 0, 1, 100, 100, a.SetShutter))
                           IN  IF IsStr(sh.ret, "DRV_SUCCESS")
                               THEN [sh EXCEPT !.s.shutter = "open"]
                               ELSE sh
                      ELSE o
        start(o) == IF o.s.live
                    THEN Outcome(o.s, PyInt(-1), o.calls)
                    ELSE IF o.s.shutter = "closed"
                    THEN Outcome(o.s, PyBool(FALSE), o.calls)
                    ELSE LET st == After(o, _start_acquisition(
                                                [o.s EXCEPT !.acquiring = TRUE],
                                                a.StartAcquisition, a.WaitForAcquisition))
                         IN  IF ~IsStr(st.ret, "DRV_SUCCESS")
                             THEN Outcome(st.s, PyBool(FALSE), st.calls)
                             ELSE Outcome([st.s EXCEPT !.acquiring = FALSE], PyBool(TRUE),
                                          st.calls)
    IN  Then(Then(Then(Then(Then(Outcome(s, PyNone, <<>>), read), acq), trig), shutter),
             start)

\* a: the answer of the transport to each dll function the method may call
start_single_acquisition(s, a) ==
    LET read(o) == IF o.s.read_mode # "IMAGE"
                   THEN After(o, _set_read_mode(o.s, "IMAGE", a.SetReadMode, a.SetImage))
                   ELSE o
        acq(o) == IF o.s.acquisition_mode # "SINGLE_SCAN"
                  THEN After(o, _set_acquisition_mode(o.s, "SINGLE_SCAN",
                                                      a.SetAcquisitionMode))
                  ELSE o
        trig(o) == IF o.s.trigger_mode # "INTERNAL"
                   THEN After(o, _set_trigger_mode(o.s, "INTERNAL", a.SetTriggerMode))
                   ELSE o
        shutter(o) == IF o.s.shutter = "closed"
                      THEN LET sh == After(o, _set_shutter(o.s, 0, 1, 100, 100, a.SetShutter))
                           IN  IF IsStr(sh.ret, "DRV_SUCCESS")
                               THEN [sh EXCEPT !.s.shutter = "open"]
                               ELSE sh
                      ELSE o
        start(o) == IF o.s.live
                    THEN Outcome(o.s, PyInt(-1), o.calls)
                    ELSE LET st == After(o, _start_acquisition(
                                                [o.s EXCEPT !.acquiring = TRUE],
                                                a.StartAcquisition, a.WaitForAcquisition))
                         IN  IF ~IsStr(st.ret, "DRV_SUCCESS")
                             THEN Outcome(st.s, PyBool(FALSE), st.calls)
                             ELSE Outcome([st.s EXCEPT !.acquiring = FALSE], PyBool(TRUE),
                                          st.calls)
    IN  Then(Then(Then(Then(Then(Outcome(s, PyNone, <<>>), read), acq), trig), shutter),
             start)

\* stop_acquisition clearing the flags whatever the abort answered
stop_acquisition_always_clears(s, code) ==
    LET ab == _abort_acquisition(s, code)
    IN  Outcome([ab.s EXCEPT !.live = FALSE, !.acquiring = FALSE],
                PyBool(IsStr(ab.ret, "DRV_SUCCESS")), ab.calls)

stop_acquisition(s, code) ==
    LET ab == _abort_acquisition(s, code)
    IN  IF IsStr(ab.ret, "DRV_SUCCESS")
        THEN Outcome([ab.s EXCEPT !.live = FALSE, !.acquiring = FALSE], PyBool(TRUE),
                     ab.calls)
        ELSE Outcome(ab.s, PyBool(FALSE), ab.calls)

(***************************************************************************)
(* Image retrieval                                                         *)
(***************************************************************************)
\* dim taken to be the full frame in every mode
dim_full_frame(s) == PyInt(s.width * s.height)

\* The local variable dim of get_acquired_data after the mode branches:
\* Absent where no branch assigns it
dim(s) ==
    IF s.read_mode = "IMAGE"
    THEN IF s.acquisition_mode = "SINGLE_SCAN" THEN PyInt(s.width * s.height)
         ELSE IF s.acquisition_mode = "KINETICS" THEN PyInt(s.width * s.height * scans)
         ELSE IF s.acquisition_mode = "RUN_TILL_ABORT" THEN PyInt(s.width * s.height)
         ELSE Absent
    ELSE IF s.read_mode = "SINGLE_TRACK" \/ s.read_mode = "FVB"
    THEN IF s.acquisition_mode = "SINGLE_SCAN" THEN PyInt(s.width)
         ELSE IF s.acquisition_mode = "KINETICS" THEN PyInt(s.width * scans)
         ELSE Absent
    ELSE Absent

\* np.reshape(a, (height, width)) of a flat array of n elements is defined
\* when the shape holds exactly n elements ((-1, -1) is refused)
reshape_ok(n, height, width) == height >= 0 /\ width >= 0 /\ height * width = n

\* cimage = (c_int * dim)() after the retrieval call: zero-initialised, and
\* holding the samples raw once a call has succeeded; <<>> when no call was made
cimage_array(cl, n, raw) ==
    IF cl = <<>> THEN <<>>
    ELSE IF Ok(cl[1].code) THEN [i \in 1..n |-> raw[i]]
    ELSE [i \in 1..n |-> 0]

\* get_acquired_data without the subtraction of the baseline
get_acquired_data_keeps_baseline(s, code, raw) ==
    LET d == dim(s)
    IN  IF d.kind = "absent"
        THEN Outcome(s, PyRaise("UnboundLocalError"), <<>>)
        ELSE IF d.val < 0
        THEN Outcome(s, PyRaise("ValueError"), <<>>)
        ELSE LET fn == IF s.acquisition_mode = "RUN_TILL_ABORT"
                       THEN "GetOldestImage" ELSE "GetAcquiredData"
                 cl == <<Call(fn, <<d.val>>, code)>>
                 image_array == IF ERROR_DICT[code] # "DRV_SUCCESS"
                                THEN [i \in 1..d.val |-> 0]
                                ELSE [i \in 1..d.val |-> raw[i]]
             IN  IF ~reshape_ok(d.val, s.height, s.width)
                 THEN Outcome(s, PyRaise("ValueError"), cl)
                 ELSE LET img == PyArray(<<s.height, s.width>>, image_array)
                      IN  Outcome([s EXCEPT !.cur_image = img], img, cl)

\* code: the answer to the retrieval call; raw: the samples the transport
\* writes into the buffer when it succeeds
get_acquired_data(s, code, raw) ==
    LET d == dim(s)
    IN  IF d.kind = "absent"
        THEN \* int(dim) reads an unassigned local
             Outcome(s, PyRaise("UnboundLocalError"), <<>>)
        ELSE IF d.val < 0
        THEN \* np.zeros of a negative length
             Outcome(s, PyRaise("ValueError"), <<>>)
        ELSE LET fn == IF s.acquisition_mode = "RUN_TILL_ABORT"
                       THEN "GetOldestImage" ELSE "GetAcquiredData"
                 cl == <<Call(fn, <<d.val>>, code)>>
                 image_array == IF ERROR_DICT[code] # "DRV_SUCCESS"
                                THEN [i \in 1..d.val |-> 0]
                                ELSE [i \in 1..d.val |-> raw[i]]
             IN  IF ~reshape_ok(d.val, s.height, s.width)
                 THEN Outcome(s, PyRaise("ValueError"), cl)
                 ELSE LET img == PyArray(<<s.height, s.width>>,
                                         [i \in 1..d.val |-> image_array[i] - baseline])
                      IN  Outcome([s EXCEPT !.cur_image = img], img, cl)

(***************************************************************************)
(* Lifecycle                                                               *)
(***************************************************************************)
\* detector: what the device reports as <<width, height>>
_get_detector(detector, code) ==
    IF ERROR_DICT[code] # "DRV_SUCCESS" THEN <<-1, -1>> ELSE detector

\* on_activate with the gain applied before the read mode
on_activate_gain_first(s, d, a) ==
    LET size == _get_detector(d.detector, a.GetDetector)
        open == Outcome([s EXCEPT !.width = size[1], !.height = size[2]], PyNone,
                        <<Call("Initialize", <<>>, a.Initialize),
                          Call("GetDetector", <<>>, a.GetDetector)>>)
        read(o) == After(o, _set_read_mode(o.s, o.s.read_mode, a.SetReadMode, a.SetImage))
        trig(o) == After(o, _set_trigger_mode(o.s, o.s.trigger_mode, a.SetTriggerMode))
        expo(o) == After(o, set_exposure(o.s, o.s.exposure, a.SetExposureTime))
        acq(o) == After(o, _set_acquisition_mode(o.s, o.s.acquisition_mode,
                                                 a.SetAcquisitionMode))
        gain(o) == After(o, set_gain(o.s, o.s.preamp_gain_index, d.gains,
                                     a.GetNumberPreAmpGains, a.SetPreAmpGain))
        temp(o) == After(o, _set_temperature(o.s, o.s.temperature, a.SetTemperature))
        cool(o) == After(o, _set_cooler(o.s, o.s.cooler_on, a.CoolerON))
        amp(o) == After(o, _set_output_amplifier(o.s, o.s.output_amplifier,
                                                 a.SetOutputAmplifier))
        hs(o) == After(o, _set_hs_speed(o.s, o.s.output_amplifier,
                                        o.s.horizontal_readout_index, a.SetHSSpeed))
        vs(o) == After(o, _set_vs_speed(o.s, o.s.vertical_readout_index, a.SetVSSpeed))
        done(o) == Outcome(o.s, PyNone, o.calls)
    IN  Then(Then(Then(Then(Then(Then(Then(Then(Then(Then(Then(open,
            gain), read), trig), expo), acq), temp), cool), amp), hs), vs), done)

\* d: the device; a: the answer of the transport to each dll function
on_activate(s, d, a) ==
    LET size == _get_detector(d.detector, a.GetDetector)
        open == Outcome([s EXCEPT !.width = size[1], !.height = size[2]], PyNone,
                        <<Call("Initialize", <<>>, a.Initialize),
                          Call("GetDetector", <<>>, a.GetDetector)>>)
        read(o) == After(o, _set_read_mode(o.s, o.s.read_mode, a.SetReadMode, a.SetImage))
        trig(o) == After(o, _set_trigger_mode(o.s, o.s.trigger_mode, a.SetTriggerMode))
        expo(o) == After(o, set_exposure(o.s, o.s.exposure, a.SetExposureTime))
        acq(o) == After(o, _set_acquisition_mode(o.s, o.s.acquisition_mode,
                                                 a.SetAcquisitionMode))
        gain(o) == After(o, set_gain(o.s, o.s.preamp_gain_index, d.gains,
                                     a.GetNumberPreAmpGains, a.SetPreAmpGain))
        temp(o) == After(o, _set_temperature(o.s, o.s.temperature, a.SetTemperature))
        cool(o) == After(o, _set_cooler(o.s, o.s.cooler_on, a.CoolerON))
        amp(o) == After(o, _set_output_amplifier(o.s, o.s.output_amplifier,
                                                 a.SetOutputAmplifier))
        hs(o) == After(o, _set_hs_speed(o.s, o.s.output_amplifier,
                                        o.s.horizontal_readout_index, a.SetHSSpeed))
        vs(o) == After(o, _set_vs_speed(o.s, o.s.vertical_readout_index, a.SetVSSpeed))
        done(o) == Outcome(o.s, PyNone, o.calls)
    IN  Then(Then(Then(Then(Then(Then(Then(Then(Then(Then(Then(open,
            read), trig), expo), acq), gain), temp), cool), amp), hs), vs), done)

\* on_deactivate giving up at the first call that fails
on_deactivate_stops_on_failure(s, a) ==
    LET stop == stop_acquisition(s, a.AbortAcquisition)
        close(o) == IF AllCallsOk(o.calls)
                    THEN After(o, _close_shutter(o.s, 100, a.SetShutter)) ELSE o
        down(o) == IF AllCallsOk(o.calls)
                   THEN After(o, _shut_down(o.s, a.ShutDown)) ELSE o
        done(o) == Outcome(o.s, PyNone, o.calls)
    IN  Then(Then(Then(stop, close), down), done)

on_deactivate(s, a) ==
    LET stop == stop_acquisition(s, a.AbortAcquisition)
        close(o) == After(o, _close_shutter(o.s, 100, a.SetShutter))
        down(o) == After(o, _shut_down(o.s, a.ShutDown))
        done(o) == Outcome(o.s, PyNone, o.calls)
    IN  Then(Then(Then(stop, close), down), done)

(***************************************************************************)
(* Bounds and the inputs the operations are called with                    *)
(***************************************************************************)
MaxOps == 2                 \* operations called on an activated controller
MaxActivateFailures == 1    \* transport calls failing during one on_activate
DetectorWidth == 3          \* the detector the device reports
DetectorHeight == 2

\* the configurations: the documented defaults, and one that overrides the modes
Configs ==
    {[default_read_mode |-> "IMAGE", default_acquisition_mode |-> "SINGLE_SCAN",
      default_trigger_mode |-> "INTERNAL"],
     [default_read_mode |-> "FVB", default_acquisition_mode |-> "KINETICS",
      default_trigger_mode |-> "EXTERNAL"]}

GainTables == {<<1, 2, 5>>, <<1, 3, 5>>}
GainArgs == {1, 2, 3}
ExposureArgs == {170, 500}
TemperatureArgs == {-101, -100, -70}
ReadModeArgs == {"IMAGE", "FVB", "MULTI_TRACK", "PANORAMA"}
AcquisitionModeArgs == {"SINGLE_SCAN", "KINETICS", "RUN_TILL_ABORT", "ACCUMULATE", "VIDEO"}
TriggerModeArgs == {"INTERNAL", "EXTERNAL", "BULB"}
AmplifierArgs == {0, 1}
HSIndexArgs == {0, 1, 2}
VSIndexArgs == {0, 4, 5}
\* the number of horizontal and of vertical shift speeds the device reports
HSSpeedCounts == {2}
VSSpeedCounts == {5}

\* the status GetStatus may report: DRV_IDLE, DRV_ACQUIRING
StatusCodes == {20073, 20072}
\* the timings GetAcquisitionTimings may report: the exposure as the device
\* holds it, a c_float, with cycle times equal to it
TimingsReported == {<<CFloat(e), CFloat(e), CFloat(e)>> : e \in ExposureArgs}

\* the samples a successful retrieval writes into a buffer of n elements
RawFrames(n) == {[i \in 1..n |-> 300], [i \in 1..n |-> 200 + i]}

\* the dll functions on_activate calls whose answer is drawn
ActivateCalls ==
    {"Initialize", "GetDetector", "SetReadMode", "SetImage", "SetTriggerMode",
     "SetExposureTime", "SetAcquisitionMode", "GetNumberPreAmpGains", "SetPreAmpGain",
     "SetTemperature", "CoolerON", "SetOutputAmplifier", "SetHSSpeed", "SetVSSpeed"}

\* the answers to a set of dll functions of which at most k fail
Answers(names, k) ==
    {[n \in names |-> IF n \in F THEN 20013 ELSE 20002] :
        F \in {G \in SUBSET names : Cardinality(G) <= k}}

\* the answers start_single_acquisition needs in attribute state s; the
\* answer to WaitForAcquisition, which the code ignores, is success
SingleAcquisitionAnswers(s) ==
    {a \in [{"SetReadMode", "SetImage", "SetAcquisitionMode", "SetTriggerMode",
             "SetShutter", "StartAcquisition", "WaitForAcquisition"} -> TransportCodes] :
        /\ a.WaitForAcquisition = 20002
        /\ s.read_mode = "IMAGE" => (a.SetReadMode = 20002 /\ a.SetImage = 20002)
        /\ s.acquisition_mode = "SINGLE_SCAN" => a.SetAcquisitionMode = 20002
        /\ s.trigger_mode = "INTERNAL" => a.SetTriggerMode = 20002
        /\ s.shutter # "closed" => a.SetShutter = 20002
        /\ s.live => a.StartAcquisition = 20002}

(***************************************************************************)
(* The state machine                                                       *)
(***************************************************************************)
Devices ==
    {[gains |-> g, detector |-> <<DetectorWidth, DetectorHeight>>,
      hs_speeds |-> nh, vs_speeds |-> nv] :
        g \in GainTables, nh \in HSSpeedCounts, nv \in VSSpeedCounts}

Init ==
    /\ cam \in {ClassAttributes(c) : c \in Configs}
    /\ dev \in Devices
    /\ phase = "constructed"
    /\ lastOp = "__init__"
    /\ lastArg = <<>>
    /\ result = PyNone
    /\ calls = <<>>
    /\ cimage = <<>>
    /\ nops = 0
    /\ thr = <<>>
    /\ xh = Absent
    /\ emitted = <<>>

\* an instance on which the attribute _support_live has been supplied, as True
InitLive ==
    /\ cam \in {[ClassAttributes(c) EXCEPT !.support_live = PyBool(TRUE)] : c \in Configs}
    /\ dev \in Devices
    /\ phase = "constructed"
    /\ lastOp = "__init__"
    /\ lastArg = <<>>
    /\ result = PyNone
    /\ calls = <<>>
    /\ cimage = <<>>
    /\ nops = 0
    /\ thr = <<>>
    /\ xh = Absent
    /\ emitted = <<>>

Active == phase = "active" /\ nops < MaxOps

\* operation op, called with arg, ran with outcome o
Do(op, arg, o) ==
    /\ cam' = o.s
    /\ lastOp' = op
    /\ lastArg' = arg
    /\ result' = o.ret
    /\ calls' = o.calls
    /\ cimage' = <<>>
    /\ nops' = nops + 1
    /\ UNCHANGED <<dev, phase, thr, xh, emitted>>

OnActivate ==
    /\ phase = "constructed"
    /\ \E a \in Answers(ActivateCalls, MaxActivateFailures) :
        LET o == on_activate(cam, dev, a)
        IN  /\ cam' = o.s
            /\ lastOp' = "on_activate"
            /\ lastArg' = <<>>
            /\ result' = o.ret
            /\ calls' = o.calls
    /\ phase' = "active"
    /\ nops' = 0
    /\ cimage' = <<>>
    /\ UNCHANGED <<dev, thr, xh, emitted>>

OnDeactivate ==
    /\ Active
    /\ \E a \in [{"AbortAcquisition", "SetShutter", "ShutDown"} -> TransportCodes] :
        LET o == on_deactivate(cam, a)
        IN  /\ cam' = o.s
            /\ lastOp' = "on_deactivate"
            /\ lastArg' = <<>>
            /\ result' = o.ret
            /\ calls' = o.calls
    /\ phase' = "deactivated"
    /\ nops' = nops + 1
    /\ cimage' = <<>>
    /\ UNCHANGED <<dev, thr, xh, emitted>>

SetExposure ==
    /\ Active
    /\ \E e \in ExposureArgs, c \in TransportCodes :
        Do("set_exposure", <<PyInt(e)>>, set_exposure(cam, e, c))

SetGain ==
    /\ Active
    /\ \E g \in GainArgs, q \in TransportCodes, c \in TransportCodes :
        /\ ~Ok(q) => Ok(c)
        /\ Do("set_gain", <<PyInt(g)>>, set_gain(cam, g, dev.gains, q, c))

GetGain == Active /\ Do("get_gain", <<>>, get_gain(cam))

GetSize == Active /\ Do("get_size", <<>>, get_size(cam))

SetReadMode ==
    /\ Active
    /\ \E m \in ReadModeArgs, c \in TransportCodes, ic \in TransportCodes :
        /\ m # "IMAGE" => Ok(ic)
        /\ Do("_set_read_mode", <<PyStr(m)>>, _set_read_mode(cam, m, c, ic))

SetTriggerMode ==
    /\ Active
    /\ \E m \in TriggerModeArgs, c \in TransportCodes :
        Do("_set_trigger_mode", <<PyStr(m)>>, _set_trigger_mode(cam, m, c))

SetAcquisitionMode ==
    /\ Active
    /\ \E m \in AcquisitionModeArgs, c \in TransportCodes :
        Do("_set_acquisition_mode", <<PyStr(m)>>, _set_acquisition_mode(cam, m, c))

SetTemperature ==
    /\ Active
    /\ \E temp \in TemperatureArgs, c \in TransportCodes :
        Do("_set_temperature", <<PyInt(temp)>>, _set_temperature(cam, PyInt(temp), c))

SetCooler ==
    /\ Active
    /\ \E state \in BOOLEAN, c \in TransportCodes :
        Do("_set_cooler", <<PyBool(state)>>, _set_cooler(cam, state, c))

SetOutputAmplifier ==
    /\ Active
    /\ \E typ \in AmplifierArgs, c \in TransportCodes :
        Do("_set_output_amplifier", <<PyInt(typ)>>, _set_output_amplifier(cam, typ, c))

SetHSSpeed ==
    /\ Active
    /\ \E index \in HSIndexArgs, c \in TransportCodes :
        Do("_set_hs_speed", <<PyInt(cam.output_amplifier), PyInt(index)>>,
           _set_hs_speed(cam, cam.output_amplifier, index, c))

SetVSSpeed ==
    /\ Active
    /\ \E index \in VSIndexArgs, c \in TransportCodes :
        Do("_set_vs_speed", <<PyInt(index)>>, _set_vs_speed(cam, index, c))

OpenShutter ==
    /\ Active
    /\ \E c \in TransportCodes : Do("_open_shutter", <<PyInt(100)>>, _open_shutter(cam, 100, c))

CloseShutter ==
    /\ Active
    /\ \E c \in TransportCodes : Do("_close_shutter", <<PyInt(100)>>, _close_shutter(cam, 100, c))

SupportLiveAcquisition ==
    Active /\ Do("support_live_acquisition", <<>>, support_live_acquisition(cam))

StartLiveAcquisition ==
    Active /\ Do("start_live_acquisition", <<>>, start_live_acquisition(cam))

StartSingleAcquisition ==
    /\ Active
    /\ \E a \in SingleAcquisitionAnswers(cam) :
        Do("start_single_acquisition", <<>>, start_single_acquisition(cam, a))

StopAcquisition ==
    /\ Active
    /\ \E c \in TransportCodes : Do("stop_acquisition", <<>>, stop_acquisition(cam, c))

GetAcquiredData ==
    /\ Active
    /\ LET d == dim(cam)
           n == IF d.kind = "int" /\ d.val >= 0 THEN d.val ELSE 0
       IN  \E c \in TransportCodes, raw \in RawFrames(n) :
            /\ ~Ok(c) => raw = [i \in 1..n |-> 300]
            /\ LET o == get_acquired_data(cam, c, raw)
               IN  /\ cam' = o.s
                   /\ lastOp' = "get_acquired_data"
                   /\ lastArg' = <<>>
                   /\ result' = o.ret
                   /\ calls' = o.calls
                   /\ cimage' = cimage_array(o.calls, n, raw)
            /\ nops' = nops + 1
            /\ UNCHANGED <<dev, phase, thr, xh, emitted>>

GetExposure ==
    /\ Active
    /\ \E c \in TransportCodes, t \in TimingsReported :
        /\ ~Ok(c) => t = <<CFloat(default_exposure), CFloat(default_exposure),
                           CFloat(default_exposure)>>
        /\ Do("get_exposure", <<>>, get_exposure(cam, c, t))

GetReadyState ==
    /\ Active
    /\ \E c \in TransportCodes, st \in StatusCodes :
        Do("get_ready_state", <<>>, get_ready_state(cam, c, st))

Next ==
    \/ OnActivate
    \/ OnDeactivate
    \/ SetExposure
    \/ SetGain
    \/ GetGain
    \/ GetSize
    \/ SetReadMode
    \/ SetTriggerMode
    \/ SetAcquisitionMode
    \/ SetTemperature
    \/ SetCooler
    \/ SetOutputAmplifier
    \/ SetHSSpeed
    \/ SetVSSpeed
    \/ OpenShutter
    \/ CloseShutter
    \/ SupportLiveAcquisition
    \/ StartLiveAcquisition
    \/ StartSingleAcquisition
    \/ StopAcquisition
    \/ GetAcquiredData

Spec == Init /\ [][Next]_vars

SpecLive == InitLive /\ [][Next]_vars

\* the controller with its two queries of the device called as well
NextQueries ==
    \/ Next
    \/ GetExposure
    \/ GetReadyState

SpecQueries == Init /\ [][NextQueries]_vars

(***************************************************************************)
(* Two threads calling set_exposure on one activated controller, with no   *)
(* lock around the call.  The method holds no lock itself, and ctypes      *)
(* releases the interpreter lock for the time of a dll call, so a thread   *)
(* can be overtaken between self.dll.SetExposureTime(..) returning and     *)
(* the assignment self._exposure = exposure.  set_exposure is therefore    *)
(* two steps: the dll call, and the rest of the method.  Here `calls`      *)
(* keeps growing: it is the log of the transport since on_activate.        *)
(***************************************************************************)
Threads == {1, 2}

InitThreads ==
    /\ cam \in {ClassAttributes(c) : c \in Configs}
    /\ dev \in Devices
    /\ phase = "constructed"
    /\ lastOp = "__init__"
    /\ lastArg = <<>>
    /\ result = PyNone
    /\ calls = <<>>
    /\ cimage = <<>>
    /\ nops = 0
    /\ thr = [pc |-> [t \in Threads |-> "ready"],
              arg |-> [t \in Threads |-> 0],
              code |-> [t \in Threads |-> 0],
              called |-> <<>>,
              returned |-> <<>>]
    /\ xh = Absent
    /\ emitted = <<>>

\* thread t enters set_exposure(e) and its dll call is answered
SetExposureCall(t) ==
    /\ phase = "active"
    /\ thr.pc[t] = "ready"
    /\ \E e \in ExposureArgs, c \in TransportCodes :
        /\ thr' = [thr EXCEPT !.pc[t] = "called", !.arg[t] = e, !.code[t] = c,
                              !.called = Append(@, t)]
        /\ calls' = calls \o set_exposure(cam, e, c).calls
    /\ UNCHANGED <<cam, dev, phase, lastOp, lastArg, result, cimage, nops, xh, emitted>>

\* thread t goes on from the answer: assigns the attribute or logs, and returns
SetExposureReturn(t) ==
    /\ phase = "active"
    /\ thr.pc[t] = "called"
    /\ LET o == set_exposure(cam, thr.arg[t], thr.code[t])
       IN  /\ cam' = o.s
           /\ result' = o.ret
    /\ lastOp' = "set_exposure"
    /\ lastArg' = <<PyInt(thr.arg[t])>>
    /\ nops' = nops + 1
    /\ thr' = [thr EXCEPT !.pc[t] = "returned", !.returned = Append(@, t)]
    /\ UNCHANGED <<dev, phase, calls, cimage, xh, emitted>>

NextThreads ==
    \/ OnActivate
    \/ \E t \in Threads : SetExposureCall(t)
    \/ \E t \in Threads : SetExposureReturn(t)

SpecThreads == InitThreads /\ [][NextThreads]_vars

(***************************************************************************)
(* The crosshair of the scan plot (src/qtwidgets/scan_plotwidget.py,       *)
(* class ScanCrosshair).  The object is the record `xh`; `emitted` is the  *)
(* log of the signals it has emitted since its construction.  The two      *)
(* InfiniteLines and the ROI are pyqtgraph items: vline and hline hold the *)
(* coordinate of each line, crosshair the position (lower left corner) and *)
(* the size of the rectangle.  A handler or method gives the new object,   *)
(* the signals emitted and what it returns.  The min size factor is in     *)
(* hundredths.                                                             *)
(***************************************************************************)
default_min_size_factor == 2
max_min_size_factor == 100

PyPoint(p) == [kind |-> "point", x |-> p[1], y |-> p[2]]

Signal(name, args) == [sig |-> name, args |-> args]

XOutcome(x, sig, ret) == [x |-> x, sig |-> sig, ret |-> ret]

\* Slot of vline.sigDragged and hline.sigDragged.  The signals of the
\* rectangle are blocked while it is moved; sigDraggedPosChanged is
\* connected to sigPosChanged.
_update_pos_from_line(x) ==
    LET pos == <<x.vline, x.hline>>
        size == x.crosshair.size
        started == IF ~x.is_dragged THEN <<Signal("sigDragStarted", <<>>)>> ELSE <<>>
    IN  XOutcome([x EXCEPT !.is_dragged = TRUE,
                           !.crosshair.pos = <<pos[1] - size[1] \div 2,
                                               pos[2] - size[2] \div 2>>],
                 started \o <<Signal("sigDraggedPosChanged", pos),
                              Signal("sigPosChanged", pos)>>,
                 PyNone)

\* Slot of crosshair.sigRegionChanged
_update_pos_from_roi(x) ==
    LET size == x.crosshair.size
        pos == <<x.crosshair.pos[1] + size[1] \div 2, x.crosshair.pos[2] + size[2] \div 2>>
        started == IF ~x.is_dragged THEN <<Signal("sigDragStarted", <<>>)>> ELSE <<>>
    IN  XOutcome([x EXCEPT !.is_dragged = TRUE, !.vline = pos[1], !.hline = pos[2]],
                 started \o <<Signal("sigDraggedPosChanged", pos),
                              Signal("sigPosChanged", pos)>>,
                 PyNone)

\* _finish_drag emitting sigDragStopped whether or not a drag is in progress
_finish_drag_always_emits(x) ==
    XOutcome([x EXCEPT !.is_dragged = FALSE], <<Signal("sigDragStopped", <<>>)>>, PyNone)

\* Slot of sigPositionChangeFinished of both lines and of
\* crosshair.sigRegionChangeFinished
_finish_drag(x) ==
    IF x.is_dragged
    THEN XOutcome([x EXCEPT !.is_dragged = FALSE], <<Signal("sigDragStopped", <<>>)>>,
                  PyNone)
    ELSE XOutcome(x, <<>>, PyNone)

\* the signals of the three items are blocked while they are moved
set_position(x, pos) ==
    LET size == x.crosshair.size
    IN  XOutcome([x EXCEPT !.crosshair.pos = <<pos[1] - size[1] \div 2,
                                               pos[2] - size[2] \div 2>>,
                           !.vline = pos[1], !.hline = pos[2]],
                 <<Signal("sigPosChanged", pos)>>,
                 PyNone)

\* set_min_size_factor storing any positive factor
set_min_size_factor_unchecked(x, factor) ==
    IF factor <= 0
    THEN XOutcome([x EXCEPT !.min_size_factor = 0], <<>>, PyNone)
    ELSE XOutcome([x EXCEPT !.min_size_factor = factor], <<>>, PyNone)

set_min_size_factor(x, factor) ==
    IF factor <= 0
    THEN XOutcome([x EXCEPT !.min_size_factor = 0], <<>>, PyNone)
    ELSE IF factor <= max_min_size_factor
    THEN XOutcome([x EXCEPT !.min_size_factor = factor], <<>>, PyNone)
    ELSE XOutcome(x, <<>>, PyRaise("ValueError"))

\* the property min_size_factor
min_size_factor(x) == PyFloat(x.min_size_factor)

\* __init__ called with position and min_size_factor (PyNone: left out) and
\* with none of the other optional arguments; gives the object, or raises
ScanCrosshair(position, factor) ==
    LET x0 == [min_size_factor |-> default_min_size_factor,
               size |-> <<0, 0>>,
               is_dragged |-> FALSE,
               crosshair |-> [pos |-> <<0, 0>>, size |-> <<0, 0>>],
               vline |-> 0,
               hline |-> 0]
        x1 == IF position.kind = "None"
              THEN x0
              ELSE set_position(x0, <<position.x, position.y>>).x
    IN  IF factor.kind = "None"
        THEN XOutcome(x1, <<>>, PyNone)
        ELSE set_min_size_factor(x1, factor.val)

MaxEvents == 4              \* events and calls a crosshair receives

Coordinates == {0, 1}
Positions == {<<0, 0>>, <<1, 1>>}
FactorArgs == {-50, 0, 50, 100, 101}

InitCrosshair ==
    /\ xh \in {o.x : o \in {c \in {ScanCrosshair(p, f) :
                                     p \in {PyNone} \cup {PyPoint(q) : q \in Positions},
                                     f \in {PyNone} \cup {PyInt(g) : g \in FactorArgs}} :
                             ~Raised(c.ret)}}
    /\ emitted = <<>>
    /\ lastOp = "__init__"
    /\ lastArg = <<>>
    /\ result = PyNone
    /\ nops = 0
    /\ cam = Absent
    /\ dev = Absent
    /\ phase = "constructed"
    /\ calls = <<>>
    /\ cimage = <<>>
    /\ thr = <<>>

Receiving == nops < MaxEvents

\* operation or slot op, called with arg, ran with outcome o
XDo(op, arg, o) ==
    /\ xh' = o.x
    /\ emitted' = emitted \o o.sig
    /\ lastOp' = op
    /\ lastArg' = arg
    /\ result' = o.ret
    /\ nops' = nops + 1
    /\ UNCHANGED <<cam, dev, phase, calls, cimage, thr>>

\* the user drags one of the lines: the line has moved and emits sigDragged
LineDragged ==
    /\ Receiving
    /\ \E v \in Coordinates :
        \E moved \in {[xh EXCEPT !.vline = v], [xh EXCEPT !.hline = v]} :
            XDo("_update_pos_from_line", <<>>, _update_pos_from_line(moved))

\* the user drags the rectangle: it has moved and emits sigRegionChanged
RoiDragged ==
    /\ Receiving
    /\ \E p \in Positions :
        XDo("_update_pos_from_roi", <<>>,
            _update_pos_from_roi([xh EXCEPT !.crosshair.pos = p]))

\* a line emits sigPositionChangeFinished or the rectangle sigRegionChangeFinished
DragFinished == Receiving /\ XDo("_finish_drag", <<>>, _finish_drag(xh))

SetPosition ==
    /\ Receiving
    /\ \E p \in Positions : XDo("set_position", <<PyPoint(p)>>, set_position(xh, p))

SetMinSizeFactor ==
    /\ Receiving
    /\ \E f \in FactorArgs :
        XDo("set_min_size_factor", <<PyInt(f)>>, set_min_size_factor(xh, f))

NextCrosshair ==
    \/ LineDragged
    \/ RoiDragged
    \/ DragFinished
    \/ SetPosition
    \/ SetMinSizeFactor

SpecCrosshair == InitCrosshair /\ [][NextCrosshair]_vars

(***************************************************************************)
(* Vocabulary of the properties                                            *)
(***************************************************************************)
\* a returned value that tells the caller the call failed
Failure(r) ==
    \/ r.kind = "int" /\ r.val = -1
    \/ r.kind = "bool" /\ r.val = FALSE
    \/ r.kind = "str" /\ r.str # "DRV_SUCCESS"

\* the logged calls of dll function fn
CallsOf(cl, fn) == {i \in DOMAIN cl : cl[i].fn = fn}

Called(cl, fn) == CallsOf(cl, fn) # {}

CallFailed(cl, fn) == \E i \in CallsOf(cl, fn) : ~Ok(cl[i].code)

ModeSetters == {"_set_read_mode", "_set_trigger_mode", "_set_acquisition_mode"}

EnumOf(op) ==
    IF op = "_set_read_mode" THEN ReadMode
    ELSE IF op = "_set_trigger_mode" THEN TriggerMode
    ELSE AcquisitionMode

\* the dll function through which each setter applies its value
SetCallOf ==
    [set_exposure |-> "SetExposureTime", set_gain |-> "SetPreAmpGain",
     _set_read_mode |-> "SetReadMode", _set_trigger_mode |-> "SetTriggerMode",
     _set_acquisition_mode |-> "SetAcquisitionMode",
     _set_temperature |-> "SetTemperature", _set_hs_speed |-> "SetHSSpeed",
     _set_vs_speed |-> "SetVSSpeed"]

InTable(table, v) == \E i \in DOMAIN table : table[i] = v

(***************************************************************************)
(* C1: each mode setter, called with a name that is no member of its enum, *)
(* returns -1, calls nothing on the transport and changes no attribute.    *)
(***************************************************************************)
C1_InvalidModeReturnsError ==
    [][(lastOp' \in ModeSetters /\ ~hasattr(EnumOf(lastOp'), lastArg'[1].str))
        => (IsInt(result', -1) /\ calls' = <<>> /\ cam' = cam)]_vars

(***************************************************************************)
(* C2: _set_temperature with temp <= _min_temperature returns an error     *)
(* result, does not call SetTemperature and keeps the stored setpoint.     *)
(***************************************************************************)
C2_TemperatureBelowMinimumReported ==
    [][(lastOp' = "_set_temperature" /\ lastArg'[1].val <= min_temperature)
        => (/\ Failure(result')
            /\ ~Called(calls', "SetTemperature")
            /\ cam'.temperature = cam.temperature)]_vars

(***************************************************************************)
(* C3: whenever the transport answers a setter's set call with a status    *)
(* other than success, no attribute changes and the caller gets a failure  *)
(* result.                                                                 *)
(***************************************************************************)
C3_TransportFailureLeavesStateAndFails ==
    [][(lastOp' \in DOMAIN SetCallOf /\ CallFailed(calls', SetCallOf[lastOp']))
        => (cam' = cam /\ Failure(result'))]_vars

(***************************************************************************)
(* C4: gain round trip.  set_gain(v) for v in the device's table, with     *)
(* every transport call succeeding, followed by get_gain() gives v; for v  *)
(* not in the table set_gain(v) returns -1, does not call SetPreAmpGain    *)
(* and leaves the gain and the gain index as they were.                    *)
(***************************************************************************)
C4_GainRoundTrip ==
    [][/\ (/\ lastOp = "set_gain" /\ InTable(dev.gains, lastArg[1].val) /\ AllCallsOk(calls)
           /\ lastOp' = "get_gain")
          => IsInt(result', lastArg[1].val)
       /\ (lastOp' = "set_gain" /\ ~InTable(dev.gains, lastArg'[1].val))
          => (/\ IsInt(result', -1)
              /\ ~Called(calls', "SetPreAmpGain")
              /\ cam'.gain = cam.gain
              /\ cam'.preamp_gain_index = cam.preamp_gain_index)]_vars

\* get_gain has just returned 1, a gain only set_gain(1) can have stored
C4_Witness ==
    /\ lastOp = "get_gain" /\ nops = 2
    /\ InTable(dev.gains, 1) /\ IsInt(result, 1) /\ cam.preamp_gain_index = 0

(***************************************************************************)
(* C5: _set_read_mode('IMAGE') always calls SetImage with the full width   *)
(* and height; when that SetImage fails, _set_read_mode returns -1 and the *)
(* read mode stays what it was.                                            *)
(***************************************************************************)
C5_ImageFailureFailsReadMode ==
    [][(lastOp' = "_set_read_mode" /\ lastArg'[1].str = "IMAGE")
        => (/\ \E i \in CallsOf(calls', "SetImage") :
                    calls'[i].args = <<1, 1, 1, cam.width, 1, cam.height>>
            /\ CallFailed(calls', "SetImage")
                   => (IsInt(result', -1) /\ cam'.read_mode = cam.read_mode))]_vars

(***************************************************************************)
(* C6: when start_single_acquisition has returned, the acquiring flag is   *)
(* False; it returned True if StartAcquisition succeeded and False if it   *)
(* failed; StartAcquisition was called at most once.                       *)
(***************************************************************************)
C6_IdleAfterSingleAcquisition ==
    lastOp = "start_single_acquisition"
        => (/\ cam.acquiring = FALSE
            /\ Cardinality(CallsOf(calls, "StartAcquisition")) <= 1
            /\ \A i \in CallsOf(calls, "StartAcquisition") :
                    IsBool(result, Ok(calls[i].code)))

(***************************************************************************)
(* C7: stop_acquisition calls AbortAcquisition once.  If the abort         *)
(* succeeds, live and acquiring are False afterwards and it returns True;  *)
(* if it fails, both flags keep their value and it returns False; with     *)
(* both flags False before, neither changes.                               *)
(***************************************************************************)
C7_StopAcquisition ==
    [][lastOp' = "stop_acquisition"
        => (/\ Len(calls') = 1 /\ calls'[1].fn = "AbortAcquisition"
            /\ Ok(calls'[1].code)
                   => (~cam'.live /\ ~cam'.acquiring /\ IsBool(result', TRUE))
            /\ ~Ok(calls'[1].code)
                   => (/\ cam'.live = cam.live /\ cam'.acquiring = cam.acquiring
                       /\ IsBool(result', FALSE))
            /\ (~cam.live /\ ~cam.acquiring) => (~cam'.live /\ ~cam'.acquiring))]_vars

\* an abort has failed while the acquiring flag was set: the flag is kept
C7_Witness ==
    lastOp = "stop_acquisition" /\ IsBool(result, FALSE) /\ cam.acquiring

(***************************************************************************)
(* C8: start_single_acquisition called while the live flag is True is      *)
(* rejected, and calls neither StartAcquisition nor WaitForAcquisition.    *)
(***************************************************************************)
C8_BusyRejectedWithoutStart ==
    [][(lastOp' = "start_single_acquisition" /\ cam.live)
        => (/\ Failure(result')
            /\ ~Called(calls', "StartAcquisition")
            /\ ~Called(calls', "WaitForAcquisition"))]_vars

\* a single acquisition has been requested, and rejected, on a live controller
C8_Witness ==
    lastOp = "start_single_acquisition" /\ cam.live /\ IsInt(result, -1)

C10_NoFrameOnRetrievalFailure ==
    (lastOp = "get_acquired_data" /\ calls # <<>> /\ ~Ok(calls[1].code))
        => result.kind # "ndarray"

\* the dll functions through which get_acquired_data retrieves a frame
RetrievalCalls == {"GetAcquiredData", "GetOldestImage"}

\* the read-mode / acquisition-mode combinations with a defined buffer length
DefinedCombination(s) ==
    \/ s.read_mode = "IMAGE"
       /\ s.acquisition_mode \in {"SINGLE_SCAN", "KINETICS", "RUN_TILL_ABORT"}
    \/ s.read_mode \in {"SINGLE_TRACK", "FVB"}
       /\ s.acquisition_mode \in {"SINGLE_SCAN", "KINETICS"}

\* the buffer length of a defined combination, for width w, height h, n scans
ExpectedLength(s, w, h, n) ==
    IF s.read_mode = "IMAGE"
    THEN IF s.acquisition_mode = "KINETICS" THEN w * h * n ELSE w * h
    ELSE IF s.acquisition_mode = "KINETICS" THEN w * n ELSE w

C12_FrameShape ==
    (/\ lastOp = "get_acquired_data" /\ DefinedCombination(cam)
     /\ calls # <<>> /\ AllCallsOk(calls))
        => (result.kind = "ndarray" /\ result.val.shape = <<cam.height, cam.width>>)

(***************************************************************************)
(* C13: in a combination with no defined buffer length get_acquired_data   *)
(* reports an error to its caller and makes no retrieval call.             *)
(***************************************************************************)
C13_UndefinedCombinationReported ==
    (lastOp = "get_acquired_data" /\ ~DefinedCombination(cam))
        => (/\ Failure(result)
            /\ \A i \in DOMAIN calls : calls[i].fn \notin RetrievalCalls)

(***************************************************************************)
(* C14: on a successful retrieval every element of the returned frame is   *)
(* the raw sample the transport wrote minus 200; uniform samples of 300    *)
(* give a frame that is 100 everywhere.                                    *)
(***************************************************************************)
C14_BaselineSubtracted ==
    (/\ lastOp = "get_acquired_data" /\ result.kind = "ndarray"
     /\ calls # <<>> /\ Ok(calls[1].code))
        => (/\ Len(result.val.data) = Len(cimage)
            /\ \A i \in DOMAIN cimage : result.val.data[i] = cimage[i] - 200
            /\ (\A i \in DOMAIN cimage : cimage[i] = 300)
                   => \A i \in DOMAIN result.val.data : result.val.data[i] = 100)

\* a full frame of uniform samples 300 has been retrieved
C14_Witness ==
    /\ lastOp = "get_acquired_data" /\ result.kind = "ndarray"
    /\ calls # <<>> /\ Ok(calls[1].code)
    /\ Len(cimage) = DetectorWidth * DetectorHeight
    /\ \A i \in DOMAIN cimage : cimage[i] = 300 /\ result.val.data[i] = 100

\* the first transport call of each step of on_activate, in the order claimed
ActivateOrder ==
    <<"Initialize", "GetDetector", "SetReadMode", "SetTriggerMode", "SetExposureTime",
      "SetAcquisitionMode", "GetNumberPreAmpGains", "SetTemperature", "Cooler",
      "SetOutputAmplifier", "SetHSSpeed", "SetVSSpeed">>

Landmark(c) == IF c.fn \in {"CoolerON", "CoolerOFF"} THEN "Cooler" ELSE c.fn

IsLandmark(c) == \E k \in DOMAIN ActivateOrder : ActivateOrder[k] = Landmark(c)

\* the landmarks among the calls cl, in the order they were made
Landmarks(cl) ==
    LET sel == SelectSeq(cl, IsLandmark)
    IN  [k \in 1..Len(sel) |-> Landmark(sel[k])]

(***************************************************************************)
(* C15: on_activate opens the transport and queries the detector, then     *)
(* runs the setters in the order read mode, trigger mode, exposure,        *)
(* acquisition mode, gain, temperature, cooler, output amplifier,          *)
(* horizontal speed, vertical speed, each once and one after the other.    *)
(***************************************************************************)
C15_ActivationOrder ==
    lastOp = "on_activate" => Landmarks(calls) = ActivateOrder

\* an activation during which the read-mode call failed, and which went on
C15_Witness ==
    /\ lastOp = "on_activate" /\ CallFailed(calls, "SetReadMode")
    /\ calls[Len(calls)].fn = "SetVSSpeed"

(***************************************************************************)
(* C16: on_deactivate calls AbortAcquisition, then SetShutter with mode    *)
(* 2 (permanently closed), then ShutDown, and nothing else, whatever the   *)
(* abort and the shutter call answer.                                      *)
(***************************************************************************)
C16_DeactivationOrder ==
    lastOp = "on_deactivate"
        => (/\ [k \in 1..Len(calls) |-> calls[k].fn]
                   = <<"AbortAcquisition", "SetShutter", "ShutDown">>
            /\ calls[2].args[2] = 2)

\* a deactivation that released the transport after abort and shutter had failed
C16_Witness ==
    /\ lastOp = "on_deactivate" /\ Len(calls) = 3
    /\ ~Ok(calls[1].code) /\ ~Ok(calls[2].code) /\ calls[3].fn = "ShutDown"

\* the requested value of a setter was valid
ValidRequest(op, arg, d) ==
    IF op \in ModeSetters THEN hasattr(EnumOf(op), arg[1].str)
    ELSE IF op = "_set_temperature" THEN arg[1].val > min_temperature
    ELSE IF op = "_set_hs_speed" THEN arg[2].val \in 0..(d.hs_speeds - 1)
    ELSE IF op = "_set_vs_speed" THEN arg[1].val \in 0..(d.vs_speeds - 1)
    ELSE TRUE

\* the attribute of s that the setter op is to commit holds the requested value
Committed(op, arg, s) ==
    IF op = "set_exposure" THEN s.exposure = arg[1].val
    ELSE IF op = "_set_read_mode" THEN s.read_mode = arg[1].str
    ELSE IF op = "_set_trigger_mode" THEN s.trigger_mode = arg[1].str
    ELSE IF op = "_set_acquisition_mode" THEN s.acquisition_mode = arg[1].str
    ELSE IF op = "_set_temperature" THEN s.temperature = arg[1]
    ELSE IF op = "_set_cooler" THEN s.cooler_on = arg[1].val
    ELSE IF op = "_set_output_amplifier" THEN s.output_amplifier = arg[1].val
    ELSE IF op = "_set_hs_speed" THEN s.horizontal_readout_index = arg[2].val
    ELSE s.vertical_readout_index = arg[1].val

CommittingSetters ==
    {"set_exposure", "_set_read_mode", "_set_trigger_mode", "_set_acquisition_mode",
     "_set_temperature", "_set_cooler", "_set_output_amplifier", "_set_hs_speed",
     "_set_vs_speed"}

(***************************************************************************)
(* C17: after a setter (exposure, read mode, trigger mode, acquisition     *)
(* mode, temperature, cooler, output amplifier, horizontal and vertical    *)
(* speed) was called with a valid value and every transport call it made   *)
(* succeeded, its attribute holds the requested value.                     *)
(***************************************************************************)
C17_CommittedOnSuccess ==
    (/\ lastOp \in CommittingSetters /\ ValidRequest(lastOp, lastArg, dev)
     /\ calls # <<>> /\ AllCallsOk(calls))
        => Committed(lastOp, lastArg, cam)

(***************************************************************************)
(* C18: whenever start_single_acquisition has called StartAcquisition,     *)
(* the read mode is IMAGE, the acquisition mode SINGLE_SCAN and the        *)
(* trigger mode INTERNAL, whatever the normalising set calls answered.     *)
(***************************************************************************)
C18_NormalisedBeforeStart ==
    (lastOp = "start_single_acquisition" /\ Called(calls, "StartAcquisition"))
        => (/\ cam.read_mode = "IMAGE"
            /\ cam.acquisition_mode = "SINGLE_SCAN"
            /\ cam.trigger_mode = "INTERNAL")

(***************************************************************************)
(* C19: _set_hs_speed and _set_vs_speed called with an index outside       *)
(* 0..N-1, N the number of speeds the device reports, fail without calling *)
(* SetHSSpeed / SetVSSpeed and keep the stored index.                      *)
(***************************************************************************)
C19_SpeedIndexValidated ==
    [][(/\ lastOp' \in {"_set_hs_speed", "_set_vs_speed"}
        /\ ~ValidRequest(lastOp', lastArg', dev))
        => (/\ Failure(result')
            /\ ~Called(calls', "SetHSSpeed") /\ ~Called(calls', "SetVSSpeed")
            /\ cam'.horizontal_readout_index = cam.horizontal_readout_index
            /\ cam'.vertical_readout_index = cam.vertical_readout_index)]_vars

(***************************************************************************)
(* C20: once on_activate has completed, no operation changes the width     *)
(* and the height, and get_size returns them.                              *)
(***************************************************************************)
C20_GeometryFixed ==
    [][phase = "active"
        => (/\ cam'.width = cam.width /\ cam'.height = cam.height
            /\ lastOp' = "get_size" => result'.val = <<cam.width, cam.height>>)]_vars

\* a switch to IMAGE from another read mode has applied the sub-region
C20_Witness ==
    /\ lastOp = "_set_read_mode" /\ lastArg[1].str = "IMAGE" /\ nops = 2
    /\ Called(calls, "SetImage") /\ AllCallsOk(calls)
    /\ cam.hend = PyInt(DetectorWidth) /\ cam.vend = PyInt(DetectorHeight)
    /\ cam.width = DetectorWidth /\ cam.height = DetectorHeight

(***************************************************************************)
(* C21: get_ready_state returns a boolean, True exactly when the transport *)
(* reports the status DRV_IDLE and False for every other status (such as   *)
(* DRV_ACQUIRING), and changes no attribute of the controller.             *)
(***************************************************************************)
C21_ReadyStateReportsIdle ==
    [][(lastOp' = "get_ready_state" /\ nops' = nops + 1) =>
        /\ cam' = cam
        /\ result'.kind = "bool"
        /\ Len(calls') = 1
        /\ calls'[1].fn = "GetStatus"
        /\ result'.val = (Ok(calls'[1].code) /\ calls'[1].args[1] = 20073)]_vars

(***************************************************************************)
(* C22: start_single_acquisition entered with the shutter attribute        *)
(* 'closed' issues the command opening the shutter before StartAcquisition;*)
(* if that command fails the attribute stays 'closed' and StartAcquisition *)
(* is invoked all the same.  Entered with the attribute 'open' it issues   *)
(* no shutter command.                                                     *)
(***************************************************************************)
C22_ShutterOpenedBeforeStart ==
    [][(lastOp' = "start_single_acquisition" /\ nops' = nops + 1) =>
        LET sh == CallsOf(calls', "SetShutter")
            st == CallsOf(calls', "StartAcquisition")
        IN  /\ cam.shutter = "closed" =>
                /\ Cardinality(sh) = 1
                /\ \A i \in sh :
                    /\ calls'[i].args = <<0, 1, CFloat(100), CFloat(100)>>
                    /\ \A j \in st : i < j
                /\ cam'.shutter = IF CallFailed(calls', "SetShutter")
                                  THEN "closed" ELSE "open"
                /\ Cardinality(st) = 1
            /\ cam.shutter = "open" => (sh = {} /\ cam'.shutter = "open")]_vars

\* the shutter failed to open and the acquisition was started all the same
C22_Witness ==
    /\ lastOp = "start_single_acquisition"
    /\ CallFailed(calls, "SetShutter")
    /\ Called(calls, "StartAcquisition")
    /\ cam.shutter = "closed"

(***************************************************************************)
(* C23: the shutter attribute equals the mode of the last successful       *)
(* shutter command: after a successful _open_shutter it is 'open', after   *)
(* a successful _close_shutter, the one issued by on_deactivate included,  *)
(* it is 'closed'.                                                         *)
(***************************************************************************)
C23_ShutterStateFollowsCommands ==
    /\ (lastOp = "_open_shutter" /\ AllCallsOk(calls)) => cam.shutter = "open"
    /\ (/\ lastOp \in {"_close_shutter", "on_deactivate"}
        /\ Called(calls, "SetShutter")
        /\ ~CallFailed(calls, "SetShutter")) => cam.shutter = "closed"

(***************************************************************************)
(* C25: _start_acquisition enters WaitForAcquisition only after            *)
(* StartAcquisition has reported success; when StartAcquisition reports    *)
(* anything else the caller is not blocked in the wait.                    *)
(***************************************************************************)
C25_WaitOnlyAfterSuccessfulStart ==
    \A j \in CallsOf(calls, "WaitForAcquisition") :
        \E i \in CallsOf(calls, "StartAcquisition") : i < j /\ Ok(calls[i].code)

C28_DefaultGainIndexApplied ==
    (lastOp = "on_activate" /\ AllCallsOk(calls)) =>
        /\ \E i \in CallsOf(calls, "SetPreAmpGain") :
            calls[i].args = <<CInt(default_preamp_gain_index)>>
        /\ cam.preamp_gain_index = default_preamp_gain_index
        /\ get_gain(cam).ret = PyInt(_get_preamp_gain(dev.gains, default_preamp_gain_index))

(***************************************************************************)
(* C27: get_exposure does not corrupt the committed configuration: when    *)
(* the query of the acquisition timings fails, the exposure attribute      *)
(* keeps the value the last successful set_exposure committed, and that    *)
(* value is what get_exposure returns.                                     *)
(***************************************************************************)
C27_FailedQueryKeepsExposure ==
    [][(/\ lastOp' = "get_exposure"
        /\ nops' = nops + 1
        /\ CallFailed(calls', "GetAcquisitionTimings")) =>
            /\ cam'.exposure = cam.exposure
            /\ result' = PyFloat(cam.exposure)]_vars

\* the exposure the transport applied last: the argument of the last
\* SetExposureTime call it answered with success
AppliedExposure(cl) ==
    LET ok == {i \in CallsOf(cl, "SetExposureTime") : Ok(cl[i].code)}
    IN  cl[CHOOSE i \in ok : \A j \in ok : j <= i].args[1]

\* both threads have returned from set_exposure, called with different
\* values, and every transport call since construction succeeded
BothReturned ==
    /\ \A t \in Threads : thr.pc[t] = "returned"
    /\ thr.arg[1] # thr.arg[2]
    /\ AllCallsOk(calls)

(***************************************************************************)
(* C24: without external locking two threads calling set_exposure with     *)
(* different valid values race, every transport call succeeding: once both *)
(* calls have returned, the exposure attribute is the value of the call    *)
(* that returned last while the transport holds the value of the dll call  *)
(* made last, so the two differ exactly when the thread whose dll call     *)
(* came last returned first, a state the interleaving reaches.             *)
(***************************************************************************)
C24_SetterRace ==
    BothReturned =>
        /\ cam.exposure = thr.arg[thr.returned[2]]
        /\ AppliedExposure(calls) = CFloat(thr.arg[thr.called[2]])
        /\ (CFloat(cam.exposure) # AppliedExposure(calls)) <=>
                (thr.called[2] # thr.returned[2])

\* both calls returned and the attribute is not what the transport applied last
C24_Witness ==
    /\ BothReturned
    /\ CFloat(cam.exposure) # AppliedExposure(calls)

\* the drag signals emitted so far, in order
IsDragSignal(e) == e.sig \in {"sigDragStarted", "sigDragStopped"}

DragSignals(log) == SelectSeq(log, IsDragSignal)

\* the drag signals alternate, beginning with sigDragStarted
Alternating(d) ==
    \A i \in DOMAIN d :
        d[i].sig = IF i % 2 = 1 THEN "sigDragStarted" ELSE "sigDragStopped"

DragUpdates == {"_update_pos_from_line", "_update_pos_from_roi"}

(***************************************************************************)
(* C29: over any sequence of line-drag, ROI-drag and drag-finished events  *)
(* the signals sigDragStarted and sigDragStopped of a ScanCrosshair        *)
(* strictly alternate, beginning with sigDragStarted: a drag update emits  *)
(* sigDragStarted exactly when no drag is in progress (once, at the first  *)
(* update of a drag), a drag-finished event emits sigDragStopped exactly   *)
(* when a drag is in progress, and set_position emits neither.             *)
(***************************************************************************)
C29_DragSignalsAlternate ==
    [][nops' = nops + 1 =>
        LET new == DragSignals(SubSeq(emitted', Len(emitted) + 1, Len(emitted')))
        IN  /\ Alternating(DragSignals(emitted'))
            /\ xh'.is_dragged <=> (Len(DragSignals(emitted')) % 2 = 1)
            /\ lastOp' \in DragUpdates =>
                new = IF xh.is_dragged THEN <<>> ELSE <<Signal("sigDragStarted", <<>>)>>
            /\ lastOp' = "_finish_drag" =>
                new = IF xh.is_dragged THEN <<Signal("sigDragStopped", <<>>)>> ELSE <<>>
            /\ lastOp' = "set_position" => new = <<>>]_vars

\* a drag of several updates was finished and a second drag has begun
C29_Witness ==
    /\ lastOp \in DragUpdates
    /\ Len(DragSignals(emitted)) = 3
    /\ Len(emitted) > 7
    /\ xh.is_dragged

\* the factor, in hundredths, lies in [0, 1]
FactorInRange(x) == 0 <= min_size_factor(x).val /\ min_size_factor(x).val <= max_min_size_factor

(***************************************************************************)
(* C30: min_size_factor of a ScanCrosshair lies in [0, 1] in every         *)
(* reachable state: set_min_size_factor stores 0 for a factor <= 0, the    *)
(* factor itself for 0 < factor <= 1, and for a factor > 1 raises          *)
(* ValueError and leaves the stored factor unchanged; no other step        *)
(* changes it.                                                             *)
(***************************************************************************)
C30_MinSizeFactorInRange ==
    [][nops' = nops + 1 =>
        /\ FactorInRange(xh)
        /\ FactorInRange(xh')
        /\ IF lastOp' = "set_min_size_factor"
           THEN LET factor == lastArg'[1].val
                IN  /\ factor <= 0 =>
                        (xh'.min_size_factor = 0 /\ ~Raised(result'))
                    /\ (0 < factor /\ factor <= max_min_size_factor) =>
                        (xh'.min_size_factor = factor /\ ~Raised(result'))
                    /\ factor > max_min_size_factor =>
                        /\ result' = PyRaise("ValueError")
                        /\ xh'.min_size_factor = xh.min_size_factor
           ELSE xh'.min_size_factor = xh.min_size_factor]_vars

\* a factor above 1 was refused and the factor set before it is in place
C30_Witness ==
    /\ lastOp = "set_min_size_factor"
    /\ lastArg[1].val > max_min_size_factor
    /\ Raised(result)
    /\ xh.min_size_factor = 50

====
